---------------------------- MODULE Spec2Model ----------------------------
(***************************************************************************)
(* State-machine model of the UNESCO scraper scripts.                      *)
(*                                                                         *)
(*   "resumable"  the script with resume, CAPTCHA pause and per-item       *)
(*                append (src/unnamed/part_001),                           *)
(*   "batch"      the script that collects records and writes them once    *)
(*                (src/unnamed/part_000),                                  *)
(*   "legacy"     the second script of src/script.js (lines 175-406).      *)
(*                                                                         *)
(* A JavaScript string is modelled as a sequence of atoms.  An atom is a   *)
(* TLA+ string that is either one delimiter character (",", "\n", "\"",    *)
(* " ", ".", "#") or a run of characters holding no delimiter.  split,     *)
(* join, trim and length therefore act on the delimiters as the JavaScript *)
(* built-ins do.                                                           *)
(***************************************************************************)
EXTENDS Integers, Sequences, FiniteSets, TLC

VARIABLES
  variant,      \* which script runs
  run,          \* number of the current process (1 = first run)
  pc,           \* position of the main async function
  csvExists,    \* fs.existsSync(csvFilePath)
  csvData,      \* content of the CSV file
  writerAppend, \* csv-writer's append flag (set by the first write)
  scrapedLinks, \* Set of links loaded from the CSV (resumable)
  indexDom,     \* hrefs of ".list_site a" on the index page
  siteLinks,    \* result of the link extraction
  idx,          \* position of the for-of loop in siteLinks (1-based)
  siteData,     \* result of sitePage.evaluate for the current item
  latlong,      \* [latitude, longitude] of the current item
  summary,      \* result of summarizeText for the current item
  caught,       \* the error the per-item catch block is handling
  apiCalls,     \* outcomes of the axios.post calls summarizeText made for
                \* the current item
  captcha,      \* CAPTCHA handling of the current item: "alert", "signal"
                \* and "settle", in the order they happened
  data,         \* the in-memory array of the batch scripts
  browserOpen,  \* puppeteer browser launched and not closed
  exitCode,     \* -1 while running, else the process exit status
  maxRetries,   \* gotoWithRetries: parameter
  attempts,     \* gotoWithRetries: loop counter
  gotoCaller,   \* gotoWithRetries: who awaits it
  navTrace,     \* gotoWithRetries: this call's page.goto results ("ok",
                \* "fail") and backoff waits ("sleep"), in order
  gotoWarns,    \* gotoWithRetries: logger.warn calls of this call
  stats,        \* per loop position: what this run did for it
  lastError,    \* which logger.error line the run reached last
  written,      \* records this run's successful writes persisted, in order
  csvAtStart,   \* content of the CSV file when this run started
  prevLinks,    \* links whose record an earlier run wrote
  initStore,    \* the CSV file before the first run: absent, or a prior
                \* file and the addresses its rows end in
  sitePageOpen, \* the second tab (sitePage) is open
  reported,     \* the counts logged as "Records collected: n", in order
  reqPc,        \* per GET request: position of scrapeSites and of the
                \* scrapeAndSaveToCSV call it awaits
  reqBrowser,   \* per request: its browser is launched and not closed
  reqLinks,     \* per request: uniqueLinks
  reqIdx,       \* per request: position of the for-of loop (1-based)
  reqData,      \* per request: scrapedData
  reqAppend,    \* per request: the writer's append flag when its write began
  reqError,     \* per request: the await that rejected, or "none"
  response,     \* per request: the status codes sent, in order
  writing       \* requests whose csvWriter.writeRecords is in progress

vars == <<variant, run, pc, csvExists, csvData, writerAppend, scrapedLinks,
          indexDom, siteLinks, idx, siteData, latlong, summary, caught, captcha,
          apiCalls, data, browserOpen, exitCode, maxRetries, attempts, gotoCaller, navTrace,
          gotoWarns, stats, lastError, written, csvAtStart, prevLinks,
          initStore, sitePageOpen, reported, reqPc, reqBrowser, reqLinks, reqIdx, reqData, reqAppend,
          reqError, response, writing>>

gotoVars == <<maxRetries, attempts, gotoCaller, navTrace, gotoWarns>>
fileVars == <<csvExists, csvData, writerAppend>>
itemVars == <<siteData, latlong, summary, caught, captcha, apiCalls>>
serviceVars == <<reqPc, reqBrowser, reqLinks, reqIdx, reqData, reqAppend,
                 reqError, response, writing>>
siteVars == <<variant, indexDom, initStore, serviceVars>>
resumeVars == <<run, csvAtStart, prevLinks>>
runVars == <<resumeVars, sitePageOpen, reported>>

---------------------------------------------------------------------------
(* Bounds of the model *)

MaxLinks == 2
MaxRuns == 2
MaxRetriesBound == 5
MaxNumber == 90
MaxRequests == 2

(* Program constants *)

DefaultMaxRetries == 3
AuraScore == 400
MinSummarizeLength == 20

Variants == {"resumable", "batch", "legacy"}

---------------------------------------------------------------------------
(* JavaScript string built-ins on atom sequences *)

RECURSIVE length(_)
length(s) == IF s = <<>> THEN 0 ELSE Len(Head(s)) + length(Tail(s))

includes(s, ch) == \E i \in 1..Len(s) : s[i] = ch

RECURSIVE split(_, _)
split(s, sep) ==
  IF ~includes(s, sep) THEN <<s>>
  ELSE LET i == CHOOSE i \in 1..Len(s) :
                  s[i] = sep /\ \A j \in 1..(i - 1) : s[j] # sep
       IN <<SubSeq(s, 1, i - 1)>> \o split(SubSeq(s, i + 1, Len(s)), sep)

RECURSIVE join(_, _)
join(parts, sep) ==
  IF parts = <<>> THEN <<>>
  ELSE IF Len(parts) = 1 THEN parts[1]
  ELSE parts[1] \o sep \o join(Tail(parts), sep)

slice(a, from, to) == SubSeq(a, from + 1, IF to < Len(a) THEN to ELSE Len(a))

Whitespace == {" ", "\n"}

RECURSIVE trimStart(_)
trimStart(s) ==
  IF s # <<>> /\ Head(s) \in Whitespace THEN trimStart(Tail(s)) ELSE s

RECURSIVE trimEnd(_)
trimEnd(s) ==
  IF s # <<>> /\ s[Len(s)] \in Whitespace
  THEN trimEnd(SubSeq(s, 1, Len(s) - 1)) ELSE s

trim(s) == trimEnd(trimStart(s))

RECURSIVE replaceQuotes(_)
replaceQuotes(s) ==
  IF s = <<>> THEN <<>>
  ELSE (IF Head(s) = "\"" THEN <<"\"", "\"">> ELSE <<Head(s)>>)
       \o replaceQuotes(Tail(s))

---------------------------------------------------------------------------
(* csv-writer: createObjectCsvWriter({path, header, append}) *)

header(v) ==
  LET common == << <<"Title">>, <<"Aura">>, <<"Category">>, <<"Description">>,
                   <<"Latitude">>, <<"Longitude">>, <<"Price">>, <<"Images">> >>
  IN IF v = "resumable" THEN Append(common, <<"Link">>) ELSE common

(* the option "append" each script passes; csv-writer's default is false *)
appendOption(v) == v = "resumable"

(* a field is quoted when it holds the delimiter, a quote or a line break *)
quoteField(f) ==
  IF includes(f, ",") \/ includes(f, "\"") \/ includes(f, "\n")
  THEN <<"\"">> \o replaceQuotes(f) \o <<"\"">>
  ELSE f

recordFields(v, rec) ==
  LET common == <<rec.title, rec.aura, rec.category, rec.description,
                  rec.latitude, rec.longitude, rec.price, rec.images>>
  IN IF v = "resumable" THEN Append(common, rec.link) ELSE common

stringifyRow(fields) ==
  join([i \in 1..Len(fields) |-> quoteField(fields[i])], <<",">>) \o <<"\n">>

RECURSIVE stringifyRecords(_, _)
stringifyRecords(v, recs) ==
  IF recs = <<>> THEN <<>>
  ELSE stringifyRow(recordFields(v, Head(recs)))
       \o stringifyRecords(v, Tail(recs))

(* csv-writer writes the header line only when its append flag is false *)
headerString(v, append) == IF ~append THEN stringifyRow(header(v)) ELSE <<>>

writeRecordsBuffered(v, append, exists, old, recs) == old

(* writeRecords: file content after a successful write; the file is opened
   with flag "a" when the append flag is set and with "w" otherwise *)
writeRecords(v, append, exists, old, recs) ==
  LET text == headerString(v, append) \o stringifyRecords(v, recs)
  IN IF append /\ exists THEN old \o text ELSE text

---------------------------------------------------------------------------
(* Loading the resume keys: the main function of the resumable script *)

firstColumn(line) ==
  LET cols == split(line, ",") IN trim(cols[1])

(* cols[cols.length - 1]?.trim() *)
lastColumn(line) ==
  LET cols == split(line, ",") IN trim(cols[Len(cols)])

loadScrapedLinksKeepsHeader(exists, rawData) ==
  IF ~exists THEN {}
  ELSE LET lines == split(rawData, "\n")
       IN {lastColumn(lines[i]) : i \in 1..Len(lines)} \ {<<>>}

(* rawData.split("\n").slice(1), then the non-empty last columns *)
loadScrapedLinks(exists, rawData) ==
  IF ~exists THEN {}
  ELSE LET lines == Tail(split(rawData, "\n"))
       IN {lastColumn(lines[i]) : i \in 1..Len(lines)} \ {<<>>}

---------------------------------------------------------------------------
(* The remote site, as the scripts can observe it *)

(* the addresses the site links resolve to, written without the origin *)
Addresses == {<<"/en/list/1">>, <<"/en/list/2">>, <<"/en/list/3">>}
AnchorHref == <<"/en/list/", "#", "top">>

LongText == <<"Monumental", " ", "ruins", ".", " ", "Inscribed", ".", " ",
              "Restored", ".">>
ShortText == <<"Ruins", ".">>
GeminiText == <<" ", "Two", ",", " ", "short", " ", "sentences", ".", "\n">>
ValidDms == <<"N", "10", " ", "0", " ", "0", " ", "W", "20", " ", "30", " ", "0">>
OneTokenDms == <<"N", "10">>
LatLongText == <<"Lat:", " ", "34", ",", " ", "Long:", " ", "64">>

(* detail pages: text of the title element, of the description element, of
   the coordinate element and the src of the image; <<>> when absent *)
Pages ==
  { [title |-> <<"Site">>, desc |-> LongText,  coords |-> ValidDms,    image |-> <<"/img">>],
    [title |-> <<>>,       desc |-> LongText,  coords |-> ValidDms,    image |-> <<"/img">>],
    [title |-> <<"Site">>, desc |-> <<>>,      coords |-> <<>>,        image |-> <<>>],
    [title |-> <<"Site">>, desc |-> LongText,  coords |-> OneTokenDms, image |-> <<"/img">>] }

(* sequences over S of length at most n *)
SeqsUpTo(S, n) == UNION {[1..k -> S] : k \in 0..n}

(* index pages: up to MaxLinks site links, possibly after an anchor link *)
IndexDoms ==
  SeqsUpTo(Addresses, MaxLinks)
    \cup {<<AnchorHref>> \o s : s \in SeqsUpTo(Addresses, 1)}

(* .filter((href) => !href.includes("#")) *)
RECURSIVE filterLinks(_)
filterLinks(hrefs) ==
  IF hrefs = <<>> THEN <<>>
  ELSE (IF includes(Head(hrefs), "#") THEN <<>> ELSE <<Head(hrefs)>>)
       \o filterLinks(Tail(hrefs))

---------------------------------------------------------------------------
(* sitePage.evaluate: the fields taken from a detail page *)

(* getText: innerText.trim() || "" ; the legacy script defaults to " " *)
getText(v, text) ==
  IF trim(text) # <<>> THEN trim(text)
  ELSE IF v = "legacy" THEN <<" ">> ELSE <<>>

extract(v, dom) ==
  [title |-> getText(v, dom.title),
   descriptionFull |-> getText(v, dom.desc),
   coordsText |-> getText(v, dom.coords),
   image |-> IF dom.image # <<>> THEN dom.image
             ELSE IF v = "legacy" THEN <<" ">> ELSE <<>>]

NoSiteData == [title |-> <<>>, descriptionFull |-> <<>>, coordsText |-> <<>>,
               image |-> <<>>]

missingRequiredIgnored(v, sd) == FALSE

(* if (!siteData.title || !siteData.descriptionFull): the legacy script has
   no such check *)
missingRequired(v, sd) ==
  v # "legacy" /\ (sd.title = <<>> \/ sd.descriptionFull = <<>>)

---------------------------------------------------------------------------
(* dmsToDD; a coordinate is [nan, v] with v in units of 1/3600 degree *)

NaN == [nan |-> TRUE, v |-> 0]
Num(n) == [nan |-> FALSE, v |-> n]

(* the numeric tokens: decimal integers up to MaxNumber *)
Digits == {ToString(n) : n \in 0..MaxNumber}
digitValue(a) == CHOOSE n \in 0..MaxNumber : ToString(n) = a

(* undefined, which Number.parseFloat reads as the text "undefined" *)
Undefined == <<"undefined">>

(* Number.parseFloat of a token *)
parseFloat(tok) ==
  IF tok = <<>> THEN NaN
  ELSE IF Head(tok) \in Digits THEN Num(digitValue(Head(tok)))
  ELSE NaN

(* a[i] of a JavaScript array, 0-based *)
at(a, i) == IF i + 1 <= Len(a) THEN a[i + 1] ELSE Undefined

(* toDD(deg, min, sec) = deg + min / 60 + sec / 3600, times 3600 *)
toDD(deg, min, sec) ==
  LET d == parseFloat(deg)  m == parseFloat(min)  s == parseFloat(sec)
  IN IF d.nan \/ m.nan \/ s.nan THEN NaN
     ELSE Num(d.v * 3600 + m.v * 60 + s.v)

negateNot(x) == x

(* lat *= -1 *)
negate(x) == IF x.nan THEN NaN ELSE Num(0 - x.v)

(* tok.split(/N|S/, 2)[1] *)
afterHemisphere(tok, letters) ==
  IF \E i \in 1..Len(tok) : tok[i] \in letters
  THEN LET i == CHOOSE i \in 1..Len(tok) :
                  tok[i] \in letters /\ \A j \in 1..(i - 1) : tok[j] \notin letters
           rest == SubSeq(tok, i + 1, Len(tok))
       IN IF \E k \in 1..Len(rest) : rest[k] \in letters
          THEN SubSeq(rest, 1, (CHOOSE k \in 1..Len(rest) :
                 rest[k] \in letters /\ \A j \in 1..(k - 1) : rest[j] \notin letters) - 1)
          ELSE rest
  ELSE Undefined

(* partsLong[0] is undefined when the text has at most three tokens, and
   reading .split of it throws a TypeError *)
dmsThrows(dms) == dms # <<>> /\ Len(split(dms, " ")) <= 3

dmsToDD(dms) ==
  IF dms = <<>> THEN <<NaN, NaN>>
  ELSE LET parts == split(dms, " ")
           partsLat == slice(parts, 0, 3)
           partsLong == SubSeq(parts, 4, Len(parts))
           lat0 == toDD(afterHemisphere(partsLat[1], {"N", "S"}),
                        at(partsLat, 1), at(partsLat, 2))
           lat == IF partsLat[1] # <<>> /\ partsLat[1][1] = "S" THEN negate(lat0) ELSE lat0
           long0 == toDD(afterHemisphere(partsLong[1], {"E", "W"}),
                         at(partsLong, 1), at(partsLong, 2))
           long == IF partsLong[1] # <<>> /\ partsLong[1][1] = "W" THEN negate(long0) ELSE long0
       IN <<lat, long>>

(* String(number), as csv-writer stringifies a field *)
numberString(x) == IF x.nan THEN <<"NaN">> ELSE <<ToString(x.v)>>

(* coordsText.match(/Lat: ([\d.-]+), Long: ([\d.-]+)/i) of the batch script;
   the legacy script's pattern is lower case and not case-insensitive *)
coordsMatch(v, text) ==
  IF v = "batch" /\ Len(text) = 8 /\ text[1] = "Lat:" /\ text[2] = " "
     /\ text[3] \in Digits /\ text[4] = "," /\ text[5] = " "
     /\ text[6] = "Long:" /\ text[7] = " " /\ text[8] \in Digits
  THEN << <<text[3]>>, <<text[8]>> >>
  ELSE IF v = "legacy" THEN << <<" ">>, <<" ">> >> ELSE << <<>>, <<>> >>

---------------------------------------------------------------------------
(* summarizeText *)

Placeholder == <<"No", " ", "description", " ", "available", ".">>

tooShortUntrimmed(longText) ==
  longText = <<>> \/ length(longText) < MinSummarizeLength

summarizeExitsAlways(v, outcome) == outcome = "error"

(* if (!longText || longText.trim().length < 20) *)
tooShort(longText) ==
  longText = <<>> \/ length(trim(longText)) < MinSummarizeLength

(* longText.split(".").slice(0, 2).join(". ") + "." *)
fallbackSummary(longText) ==
  join(slice(split(longText, "."), 0, 2), <<".", " ">>) \o <<".">>

(* outcomes of the axios.post: "text" (an output text), "blank" (an output
   of white space only), "empty" (no output field or an empty one), "error"
   (the request rejects: network error or non-success response) *)
ApiOutcomes == {"text", "blank", "empty", "error"}

BlankText == <<" ", "\n">>

(* response.data?.candidates?.[0]?.content?.parts?.[0]?.text; undefined and
   "" are both falsy and both written <<>> *)
outputOf(outcome) ==
  IF outcome = "text" THEN GeminiText
  ELSE IF outcome = "blank" THEN BlankText ELSE <<>>

(* the resumable script calls process.exit(1) in its catch *)
summarizeExits(v, outcome) == v = "resumable" /\ outcome = "error"

(* part_000 and part_001: output?.trim() || fallback; script.js:
   if (!output) return fallback; return output.trim() *)
summarizeText(v, longText, outcome) ==
  IF tooShort(longText)
  THEN (IF longText # <<>> THEN longText ELSE Placeholder)
  ELSE IF outcome = "error" THEN fallbackSummary(longText)
  ELSE IF v = "legacy"
  THEN (IF outputOf(outcome) = <<>> THEN fallbackSummary(longText)
        ELSE trim(outputOf(outcome)))
  ELSE IF trim(outputOf(outcome)) # <<>> THEN trim(outputOf(outcome))
  ELSE fallbackSummary(longText)

---------------------------------------------------------------------------
(* The record of one site *)

Origin == <<"https://whc", ".", "unesco", ".", "org">>

(* the batch script makes the image address absolute; the others store what
   the page gave *)
fullImageUrl(v, image) ==
  IF v # "batch" \/ image = <<>> \/ Head(image) = Head(Origin) THEN image
  ELSE Origin \o image

info(v, pos, url, sd, ll, sum) ==
  [title |-> sd.title,
   aura |-> <<ToString(AuraScore)>>,
   category |-> <<"historic">>,
   description |-> sum,
   latitude |-> ll[1],
   longitude |-> ll[2],
   price |-> <<"N/A">>,
   images |-> fullImageUrl(v, sd.image),
   link |-> IF v = "resumable" THEN url ELSE <<>>,
   pos |-> pos]

(* latitude and longitude as the record holds them *)
coordinates(v, coordsText) ==
  IF v = "resumable"
  THEN <<numberString(dmsToDD(coordsText)[1]), numberString(dmsToDD(coordsText)[2])>>
  ELSE coordsMatch(v, coordsText)

---------------------------------------------------------------------------
(* Initial state: a process is about to start *)

NoStats == [skip |-> 0, nav |-> 0, write |-> 0, warn |-> 0]

sampleRecord(url) ==
  info("resumable", 0, url, extract("resumable", CHOOSE p \in Pages :
         p.title # <<>> /\ p.desc = LongText), <<<<"NaN">>, <<"NaN">>>>,
       fallbackSummary(LongText))

(* CSV files that may exist before the first run: none, and files with a
   header line followed by rows that end in an address *)
PriorStores ==
  LET head == stringifyRow(header("resumable"))
      row(u) == stringifyRow(recordFields("resumable", sampleRecord(u)))
      a == <<"/en/list/1">>
      b == <<"/en/list/2">>
  IN { [kind |-> "absent", exists |-> FALSE, data |-> <<>>, links |-> {}],
       [kind |-> "prior", exists |-> TRUE, data |-> head, links |-> {}],
       [kind |-> "prior", exists |-> TRUE, data |-> head \o row(a) \o row(b),
        links |-> {a, b}] }

(* a file that exists and holds nothing *)
EmptyStore == [kind |-> "empty", exists |-> TRUE, data |-> <<>>, links |-> {}]

(* the files without a row: none, the empty one, the header alone *)
BlankStores == {st \in PriorStores : st.links = {}} \cup {EmptyStore}

Requests == 1..MaxRequests

(* index pages the HTTP service is run on: no link, one link, two links, a
   repeated link next to a link that is not a site link *)
ServiceDoms ==
  { <<>>, << <<"/en/list/1">> >>, << <<"/en/list/1">>, <<"/en/list/2">> >>,
    << <<"/en/list/1">>, <<"/en/about">>, <<"/en/list/1">> >> }

(* no request has arrived *)
serviceIdle ==
  /\ reqPc = [r \in Requests |-> "idle"]
  /\ reqBrowser = [r \in Requests |-> FALSE]
  /\ reqLinks = [r \in Requests |-> <<>>]
  /\ reqIdx = [r \in Requests |-> 0]
  /\ reqData = [r \in Requests |-> <<>>]
  /\ reqAppend = [r \in Requests |-> FALSE]
  /\ reqError = [r \in Requests |-> "none"]
  /\ response = [r \in Requests |-> <<>>]
  /\ writing = {}

initWith(scripts, stores) ==
  /\ variant \in scripts
  /\ indexDom \in (IF variant = "service" THEN ServiceDoms ELSE IndexDoms)
  /\ serviceIdle
  /\ \E st \in stores :
       /\ (variant # "resumable" => st.kind = "absent")
       /\ csvExists = st.exists
       /\ csvData = st.data
       /\ csvAtStart = st.data
       /\ initStore = [kind |-> st.kind, links |-> st.links]
  /\ writerAppend = appendOption(variant)
  /\ run = 1
  /\ pc = "start"
  /\ scrapedLinks = {}
  /\ siteLinks = <<>>
  /\ idx = 0
  /\ siteData = NoSiteData
  /\ latlong = << <<>>, <<>> >>
  /\ summary = <<>>
  /\ caught = "none"
  /\ captcha = <<>>
  /\ apiCalls = <<>>
  /\ data = <<>>
  /\ browserOpen = FALSE
  /\ exitCode = -1
  /\ maxRetries = 0
  /\ attempts = 0
  /\ gotoCaller = "none"
  /\ navTrace = <<>>
  /\ gotoWarns = 0
  /\ stats = <<>>
  /\ lastError = "none"
  /\ written = <<>>
  /\ prevLinks = {}
  /\ sitePageOpen = FALSE
  /\ reported = <<>>

initFor(scripts) == initWith(scripts, PriorStores)

(* the resumable script, started on any index page and prior store *)
Init == initFor({"resumable"})

---------------------------------------------------------------------------
(* gotoWithRetries *)

(* the scripts of part_000 and part_001 use a for loop whose counter is
   raised after the sleep; script.js raises it in the catch *)
countsInCatch(v) == v = "legacy"

retriesExhaustedLate(v, n, max) == n = max

(* if (attempts + 1 === maxRetries) throw error, resp.
   attempts++ ... if (attempts === maxRetries) throw error *)
retriesExhausted(v, n, max) ==
  IF countsInCatch(v) THEN n = max ELSE n + 1 = max

afterGotoResolvedNoReturn == "goto_sleep"

(* where the helper continues after page.goto resolved: return *)
afterGotoResolved == "goto_returned"

gotoCall(caller, max) ==
  /\ maxRetries' = max
  /\ attempts' = 0
  /\ gotoCaller' = caller
  /\ navTrace' = <<>>
  /\ gotoWarns' = 0
  /\ pc' = IF 0 < max THEN "goto_try" ELSE "goto_returned"

gotoReset ==
  /\ maxRetries' = 0
  /\ attempts' = 0
  /\ gotoCaller' = "none"
  /\ navTrace' = <<>>
  /\ gotoWarns' = 0

GotoResolved ==
  /\ pc = "goto_try"
  /\ navTrace' = Append(navTrace, "ok")
  /\ pc' = afterGotoResolved
  /\ UNCHANGED <<maxRetries, attempts, gotoCaller, gotoWarns>>
  /\ UNCHANGED <<siteVars, runVars, fileVars, itemVars, scrapedLinks, siteLinks,
                 idx, data, browserOpen, exitCode, stats, lastError, written>>

GotoRejected ==
  /\ pc = "goto_try"
  /\ navTrace' = Append(navTrace, "fail")
  /\ gotoWarns' = gotoWarns + 1
  /\ attempts' = IF countsInCatch(variant) THEN attempts + 1 ELSE attempts
  /\ pc' = IF retriesExhausted(variant, attempts', maxRetries)
           THEN "goto_thrown" ELSE "goto_sleep"
  /\ UNCHANGED <<maxRetries, gotoCaller>>
  /\ UNCHANGED <<siteVars, runVars, fileVars, itemVars, scrapedLinks, siteLinks,
                 idx, data, browserOpen, exitCode, stats, lastError, written>>

GotoSleep ==
  /\ pc = "goto_sleep"
  /\ navTrace' = Append(navTrace, "sleep")
  /\ attempts' = IF countsInCatch(variant) THEN attempts ELSE attempts + 1
  /\ pc' = IF attempts' < maxRetries THEN "goto_try" ELSE "goto_returned"
  /\ UNCHANGED <<maxRetries, gotoCaller, gotoWarns>>
  /\ UNCHANGED <<siteVars, runVars, fileVars, itemVars, scrapedLinks, siteLinks,
                 idx, data, browserOpen, exitCode, stats, lastError, written>>

---------------------------------------------------------------------------
(* The main async function *)

bump(field) ==
  [stats EXCEPT ![idx] = [@ EXCEPT ![field] = @ + 1]]

clearItem ==
  /\ siteData' = NoSiteData
  /\ latlong' = << <<>>, <<>> >>
  /\ summary' = <<>>
  /\ caught' = "none"
  /\ captcha' = <<>>
  /\ apiCalls' = <<>>

(* an error thrown inside the per-item try reaches its catch block *)
itemThrow(error) ==
  /\ caught' = error
  /\ pc' = "catch"
  /\ UNCHANGED <<siteData, latlong, summary, captcha, apiCalls, idx, stats>>

afterItemCatchAbort == "finally"

(* where the loop goes after the per-item catch logged its warning *)
afterItemCatch == "loop"

ItemCatchExits ==
  /\ pc = "catch"
  /\ stats' = bump("warn")
  /\ exitCode' = 1
  /\ pc' = "exited"
  /\ UNCHANGED <<siteVars, runVars, fileVars, gotoVars, itemVars, scrapedLinks,
                 siteLinks, idx, data, browserOpen, lastError, written>>

(* catch (err) { logger.warn(`Failed to scrape ...`) }, then the next
   iteration *)
ItemCatch ==
  /\ pc = "catch"
  /\ stats' = bump("warn")
  /\ idx' = idx + 1
  /\ pc' = afterItemCatch
  /\ clearItem
  /\ UNCHANGED <<siteVars, runVars, fileVars, gotoVars, scrapedLinks, siteLinks,
                 data, browserOpen, exitCode, lastError, written>>

(* load the resume keys, launch the browser, open the page and start the
   navigation to the list page *)
Start ==
  /\ pc = "start"
  /\ scrapedLinks' = IF variant = "resumable"
                     THEN loadScrapedLinks(csvExists, csvData) ELSE {}
  /\ browserOpen' = TRUE
  /\ gotoCall("index", DefaultMaxRetries)
  /\ UNCHANGED <<siteVars, runVars, fileVars, itemVars, siteLinks, idx, data,
                 exitCode, stats, lastError, written>>

IndexLoaded ==
  /\ pc = "goto_returned" /\ gotoCaller = "index"
  /\ gotoReset
  /\ pc' = "discover"
  /\ UNCHANGED <<siteVars, runVars, fileVars, itemVars, scrapedLinks, siteLinks,
                 idx, data, browserOpen, exitCode, stats, lastError, written>>

IndexFailedContinues ==
  /\ pc = "goto_thrown" /\ gotoCaller = "index"
  /\ gotoReset
  /\ lastError' = "index"
  /\ pc' = "discover"
  /\ UNCHANGED <<siteVars, runVars, fileVars, itemVars, scrapedLinks, siteLinks,
                 idx, data, browserOpen, exitCode, stats, written>>

(* catch of the list-page load: browser.close(); process.exit(1) *)
IndexFailed ==
  /\ pc = "goto_thrown" /\ gotoCaller = "index"
  /\ gotoReset
  /\ lastError' = "index"
  /\ browserOpen' = FALSE
  /\ exitCode' = 1
  /\ pc' = "exited"
  /\ UNCHANGED <<siteVars, runVars, fileVars, itemVars, scrapedLinks, siteLinks,
                 idx, data, stats, written>>

(* page.evaluate of the link extraction; no links throws into the outer
   catch, as does a rejected evaluate; with links the second tab is opened *)
Discover ==
  /\ pc = "discover"
  /\ \E rejected \in BOOLEAN :
       LET links == filterLinks(indexDom)
       IN IF rejected \/ links = <<>>
          THEN /\ lastError' = "scraping"
               /\ pc' = "finally"
               /\ UNCHANGED <<siteLinks, idx, stats, sitePageOpen>>
          ELSE /\ siteLinks' = links
               /\ stats' = [i \in 1..Len(links) |-> NoStats]
               /\ idx' = 1
               /\ sitePageOpen' = TRUE
               /\ pc' = "loop"
               /\ UNCHANGED lastError
  /\ UNCHANGED <<siteVars, resumeVars, reported, fileVars, itemVars, gotoVars,
                 scrapedLinks, data, browserOpen, exitCode, written>>

(* if (scrapedLinks.has(url)) continue *)
LoopSkip ==
  /\ pc = "loop" /\ idx <= Len(siteLinks)
  /\ variant = "resumable" /\ siteLinks[idx] \in scrapedLinks
  /\ stats' = bump("skip")
  /\ idx' = idx + 1
  /\ UNCHANGED <<siteVars, runVars, fileVars, itemVars, gotoVars, scrapedLinks,
                 siteLinks, data, browserOpen, exitCode, lastError, written, pc>>

(* the random delay of the resumable script starts *)
LoopDelay ==
  /\ pc = "loop" /\ idx <= Len(siteLinks)
  /\ variant = "resumable" /\ siteLinks[idx] \notin scrapedLinks
  /\ pc' = "delay"
  /\ UNCHANGED <<siteVars, runVars, fileVars, itemVars, gotoVars, scrapedLinks,
                 siteLinks, idx, data, browserOpen, exitCode, stats, lastError,
                 written>>

(* gotoWithRetries(sitePage, url, ...) once the delay has elapsed *)
ItemGoto ==
  /\ pc = "delay"
  /\ stats' = bump("nav")
  /\ gotoCall("item", DefaultMaxRetries)
  /\ UNCHANGED <<siteVars, runVars, fileVars, itemVars, scrapedLinks, siteLinks,
                 idx, data, browserOpen, exitCode, lastError, written>>

(* gotoWithRetries(sitePage, url, ...) of the batch scripts, which neither
   skip nor delay *)
BatchItemGoto ==
  /\ pc = "loop" /\ idx <= Len(siteLinks) /\ variant # "resumable"
  /\ stats' = bump("nav")
  /\ gotoCall("item", DefaultMaxRetries)
  /\ UNCHANGED <<siteVars, runVars, fileVars, itemVars, scrapedLinks, siteLinks,
                 idx, data, browserOpen, exitCode, lastError, written>>

ItemNavigated ==
  /\ pc = "goto_returned" /\ gotoCaller = "item"
  /\ gotoReset
  /\ pc' = IF variant = "resumable" THEN "content" ELSE "evaluate"
  /\ UNCHANGED <<siteVars, runVars, fileVars, itemVars, scrapedLinks, siteLinks,
                 idx, data, browserOpen, exitCode, stats, lastError, written>>

ItemNavFailedAborts ==
  /\ pc = "goto_thrown" /\ gotoCaller = "item"
  /\ gotoReset
  /\ exitCode' = 1
  /\ pc' = "exited"
  /\ UNCHANGED <<siteVars, runVars, fileVars, itemVars, scrapedLinks, siteLinks,
                 idx, data, browserOpen, stats, lastError, written>>

(* the helper threw inside the per-item try: the error reaches its catch *)
ItemNavFailed ==
  /\ pc = "goto_thrown" /\ gotoCaller = "item"
  /\ gotoReset
  /\ itemThrow("navigation")
  /\ UNCHANGED <<siteVars, runVars, fileVars, scrapedLinks, siteLinks, data,
                 browserOpen, exitCode, lastError, written>>

afterOperatorSignalNoSettle == "evaluate"

(* after the stdin promise resolved: the 5000 ms timer is awaited *)
afterOperatorSignal == "captcha_settle"

(* sitePage.content() and the search for the CAPTCHA text; when it is found:
   25 warnings, the request to solve it, player.play("beep.mp3") *)
Content ==
  /\ pc = "content"
  /\ \E detected \in BOOLEAN :
       IF detected
       THEN /\ captcha' = Append(captcha, "alert")
            /\ pc' = "captcha_wait"
       ELSE /\ pc' = "evaluate"
            /\ UNCHANGED captcha
  /\ UNCHANGED <<siteVars, runVars, fileVars, gotoVars, scrapedLinks,
                 siteLinks, idx, data, browserOpen, exitCode, stats, lastError,
                 written, siteData, latlong, summary, caught, apiCalls>>

(* process.stdin.once("data", ...): the operator hits ENTER *)
OperatorSignal ==
  /\ pc = "captcha_wait"
  /\ captcha' = Append(captcha, "signal")
  /\ pc' = afterOperatorSignal
  /\ UNCHANGED <<siteVars, runVars, fileVars, gotoVars, scrapedLinks,
                 siteLinks, idx, data, browserOpen, exitCode, stats, lastError,
                 written, siteData, latlong, summary, caught, apiCalls>>

(* the 5000 ms timer after the signal *)
SettleElapsed ==
  /\ pc = "captcha_settle"
  /\ captcha' = Append(captcha, "settle")
  /\ pc' = "evaluate"
  /\ UNCHANGED <<siteVars, runVars, fileVars, gotoVars, scrapedLinks,
                 siteLinks, idx, data, browserOpen, exitCode, stats, lastError,
                 written, siteData, latlong, summary, caught, apiCalls>>

(* sitePage.evaluate rejects *)
EvaluateRejected ==
  /\ pc = "evaluate"
  /\ itemThrow("evaluate")
  /\ UNCHANGED <<siteVars, runVars, fileVars, gotoVars, scrapedLinks, siteLinks,
                 data, browserOpen, exitCode, lastError, written>>

(* sitePage.evaluate resolves; the required-field check and the coordinate
   conversion run before summarizeText is awaited *)
Evaluated ==
  /\ pc = "evaluate"
  /\ \E dom \in Pages :
       LET sd == extract(variant, dom)
       IN IF missingRequired(variant, sd)
          THEN IF variant = "resumable"
               THEN \* logger.error("Missing title or description. Exiting.")
                    /\ lastError' = "missing"
                    /\ exitCode' = 1
                    /\ pc' = "exited"
                    /\ siteData' = sd
                    /\ UNCHANGED <<latlong, summary, caught, captcha, apiCalls, idx,
                                   stats>>
               ELSE \* logger.warn("... Skipping site."); continue
                    /\ stats' = bump("warn")
                    /\ idx' = idx + 1
                    /\ pc' = "loop"
                    /\ UNCHANGED <<itemVars, exitCode, lastError>>
          ELSE IF variant = "resumable" /\ dmsThrows(sd.coordsText)
               THEN /\ itemThrow("coordinates")
                    /\ UNCHANGED <<exitCode, lastError>>
               ELSE /\ siteData' = sd
                    /\ latlong' = coordinates(variant, sd.coordsText)
                    /\ pc' = "summarize"
                    /\ UNCHANGED <<summary, caught, captcha, apiCalls, idx, stats,
                                   exitCode, lastError>>
  /\ UNCHANGED <<siteVars, runVars, fileVars, gotoVars, scrapedLinks, siteLinks,
                 data, browserOpen, written>>


(* await summarizeText(siteData.descriptionFull) *)
Summarized ==
  /\ pc = "summarize"
  /\ IF tooShort(siteData.descriptionFull)
     THEN /\ summary' = summarizeText(variant, siteData.descriptionFull, "none")
          /\ pc' = "record"
          /\ UNCHANGED <<apiCalls, exitCode, lastError>>
     ELSE \E outcome \in ApiOutcomes :
            /\ apiCalls' = Append(apiCalls, outcome)
            /\ IF summarizeExits(variant, outcome)
               THEN \* logger.error(`Gemini API Error ...`); process.exit(1)
                    /\ lastError' = "gemini"
                    /\ exitCode' = 1
                    /\ pc' = "exited"
                    /\ UNCHANGED summary
               ELSE /\ summary' = summarizeText(variant, siteData.descriptionFull, outcome)
                    /\ pc' = "record"
                    /\ UNCHANGED <<exitCode, lastError>>
  /\ UNCHANGED <<siteVars, runVars, fileVars, gotoVars, scrapedLinks, siteLinks,
                 idx, siteData, latlong, caught, captcha, data, browserOpen,
                 stats, written>>

(* await csvWriter.writeRecords([info]) of the resumable script; a rejected
   write leaves the file as it was and is caught by the per-item catch *)
WriteRecord ==
  /\ pc = "record" /\ variant = "resumable"
  /\ LET rec == info(variant, idx, siteLinks[idx], siteData, latlong, summary)
     IN \E ok \in BOOLEAN :
          IF ok
          THEN /\ csvData' = writeRecords(variant, writerAppend, csvExists,
                                          csvData, <<rec>>)
               /\ csvExists' = TRUE
               /\ writerAppend' = TRUE
               /\ written' = Append(written, rec)
               /\ stats' = bump("write")
               /\ idx' = idx + 1
               /\ pc' = "loop"
               /\ clearItem
          ELSE /\ itemThrow("write")
               /\ UNCHANGED <<fileVars, written>>
  /\ UNCHANGED <<siteVars, runVars, gotoVars, scrapedLinks, siteLinks, data,
                 browserOpen, exitCode, lastError>>

(* data.push({...}) of the batch scripts *)
PushRecord ==
  /\ pc = "record" /\ variant # "resumable"
  /\ data' = Append(data, info(variant, idx, siteLinks[idx], siteData,
                               latlong, summary))
  /\ idx' = idx + 1
  /\ pc' = "loop"
  /\ clearItem
  /\ UNCHANGED <<siteVars, runVars, fileVars, gotoVars, scrapedLinks, siteLinks,
                 browserOpen, exitCode, stats, lastError, written>>

(* the loop is over: await sitePage.close() *)
LoopEnd ==
  /\ pc = "loop" /\ idx > Len(siteLinks)
  /\ sitePageOpen' = FALSE
  /\ pc' = IF variant = "resumable" THEN "finally" ELSE "report"
  /\ UNCHANGED <<siteVars, resumeVars, reported, fileVars, itemVars, gotoVars,
                 scrapedLinks, siteLinks, idx, data, browserOpen, exitCode,
                 stats, lastError, written>>

(* Records collected: data.length, then the one write of the batch scripts;
   the batch script lets a rejected write reach the outer catch, the legacy
   script catches it next to the write *)
Report ==
  /\ pc = "report"
  /\ reported' = Append(reported, Len(data))
  /\ IF data = <<>>
     THEN UNCHANGED <<fileVars, written, stats, lastError>>
     ELSE \E ok \in BOOLEAN :
            IF ok
            THEN /\ csvData' = writeRecords(variant, writerAppend, csvExists,
                                            csvData, data)
                 /\ csvExists' = TRUE
                 /\ writerAppend' = TRUE
                 /\ written' = data
                 /\ stats' = [i \in 1..Len(stats) |->
                                [stats[i] EXCEPT !.write =
                                   Cardinality({k \in 1..Len(data) : data[k].pos = i})]]
                 /\ UNCHANGED lastError
            ELSE /\ lastError' = IF variant = "legacy" THEN "csv" ELSE "scraping"
                 /\ UNCHANGED <<fileVars, written, stats>>
  /\ pc' = "finally"
  /\ UNCHANGED <<siteVars, resumeVars, sitePageOpen, itemVars, gotoVars,
                 scrapedLinks, siteLinks, idx, data, browserOpen, exitCode>>

(* finally { await browser.close() }, which closes every tab of the browser,
   after which the process ends *)
Finally ==
  /\ pc = "finally"
  /\ browserOpen' = FALSE
  /\ sitePageOpen' = FALSE
  /\ exitCode' = 0
  /\ pc' = "done"
  /\ UNCHANGED <<siteVars, resumeVars, reported, fileVars, itemVars, gotoVars,
                 scrapedLinks, siteLinks, idx, data, stats, lastError, written>>

(* the script is started again; only the CSV file outlives a process *)
NewRun ==
  /\ pc \in {"done", "exited"}
  /\ run < MaxRuns
  /\ run' = run + 1
  /\ csvAtStart' = csvData
  /\ prevLinks' = prevLinks \cup {siteLinks[written[k].pos] : k \in 1..Len(written)}
  /\ writerAppend' = appendOption(variant)
  /\ pc' = "start"
  /\ scrapedLinks' = {}
  /\ siteLinks' = <<>>
  /\ idx' = 0
  /\ clearItem
  /\ data' = <<>>
  /\ browserOpen' = FALSE
  /\ exitCode' = -1
  /\ stats' = <<>>
  /\ lastError' = "none"
  /\ written' = <<>>
  /\ sitePageOpen' = FALSE
  /\ reported' = <<>>
  /\ UNCHANGED <<siteVars, gotoVars, csvExists, csvData>>

Next ==
  \/ Start \/ IndexLoaded \/ IndexFailed \/ Discover
  \/ LoopSkip \/ LoopDelay \/ ItemGoto \/ ItemNavigated \/ ItemNavFailed
  \/ Content \/ OperatorSignal \/ SettleElapsed
  \/ EvaluateRejected \/ Evaluated \/ Summarized \/ ItemCatch
  \/ WriteRecord \/ LoopEnd \/ Finally \/ NewRun
  \/ GotoResolved \/ GotoRejected \/ GotoSleep

Spec == Init /\ [][Next]_vars

---------------------------------------------------------------------------
(* The resumable script started on a file without a row *)

ResumeInit == initWith({"resumable"}, BlankStores)

SpecResume == ResumeInit /\ [][Next]_vars

---------------------------------------------------------------------------
(* One run of a batch script *)

BatchInit == initFor({"batch", "legacy"})

BatchNext ==
  \/ Start \/ IndexLoaded \/ IndexFailed \/ Discover
  \/ BatchItemGoto \/ ItemNavigated \/ ItemNavFailed
  \/ EvaluateRejected \/ Evaluated \/ Summarized \/ ItemCatch
  \/ PushRecord \/ LoopEnd \/ Report \/ Finally
  \/ GotoResolved \/ GotoRejected \/ GotoSleep

SpecBatch == BatchInit /\ [][BatchNext]_vars

---------------------------------------------------------------------------
(* gotoWithRetries on its own: a caller passes any maxRetries *)

RetryInit ==
  /\ initFor(Variants)
  /\ indexDom = <<>>
  /\ initStore.kind = "absent"

RetryCall ==
  /\ pc = "start"
  /\ \E max \in 1..MaxRetriesBound : gotoCall("test", max)
  /\ UNCHANGED <<siteVars, runVars, fileVars, itemVars, scrapedLinks, siteLinks,
                 idx, data, browserOpen, exitCode, stats, lastError, written>>

RetrySettled ==
  /\ pc \in {"goto_returned", "goto_thrown"} /\ gotoCaller = "test"
  /\ gotoReset
  /\ pc' = "start"
  /\ UNCHANGED <<siteVars, runVars, fileVars, itemVars, scrapedLinks, siteLinks,
                 idx, data, browserOpen, exitCode, stats, lastError, written>>

RetryNext ==
  RetryCall \/ GotoResolved \/ GotoRejected \/ GotoSleep \/ RetrySettled

SpecRetry == RetryInit /\ [][RetryNext]_vars

---------------------------------------------------------------------------
(* summarizeText on its own: a caller passes any description *)

OneTwoThree == <<"One", ".", " ", "Two", ".", " ", "Three", ".">>
Len19Text == <<"Eighteen", " ", "character", ".">>
Len20Text == <<"Nineteen", " ", "characters", ".">>
PaddedText == <<" ", " ">> \o OneTwoThree \o <<" ", "\n", " ">>
NoPeriodText == <<"A", " ", "description", " ", "without", " ", "full", " ", "stop">>
QuotedText == <<"The", " ", "\"", "old", "\"", " ", "town", ",", " ", "rebuilt", ".",
                " ", "Walls", " ", "remain", ".", " ", "Gates", " ", "too", ".">>

SummaryInputs ==
  {<<>>, <<" ">>, ShortText, OneTwoThree, Len19Text, PaddedText,
   Len20Text, LongText, NoPeriodText, QuotedText,
   <<"Intro", ".">> \o LongText}

SummarizeInit ==
  /\ initFor(Variants)
  /\ indexDom = <<>>
  /\ initStore.kind = "absent"

SummarizeCall ==
  /\ pc = "start"
  /\ \E text \in SummaryInputs :
       siteData' = [NoSiteData EXCEPT !.descriptionFull = text]
  /\ pc' = "summarize"
  /\ UNCHANGED <<siteVars, runVars, fileVars, gotoVars, scrapedLinks, siteLinks,
                 idx, latlong, summary, caught, captcha, apiCalls, data,
                 browserOpen, exitCode, stats, lastError, written>>

(* the caller got its string, or the process is gone; the next call is made
   by a fresh caller *)
SummarizeSettled ==
  /\ pc \in {"record", "exited"}
  /\ clearItem
  /\ exitCode' = -1
  /\ lastError' = "none"
  /\ pc' = "start"
  /\ UNCHANGED <<siteVars, runVars, fileVars, gotoVars, scrapedLinks, siteLinks,
                 idx, data, browserOpen, stats, written>>

SummarizeNext == SummarizeCall \/ Summarized \/ SummarizeSettled

SpecSummarize == SummarizeInit /\ [][SummarizeNext]_vars

---------------------------------------------------------------------------
(* dmsToDD on its own: a caller passes any coordinate text *)

(* degree, minute and second values of one axis *)
DmsTriples ==
  {<<0, 0, 0>>, <<10, 0, 0>>, <<20, 0, 0>>, <<20, 30, 0>>, <<34, 23, 47>>, <<64, 30, 57>>,
   <<MaxNumber, 59, 59>>}

axisText(h, t) ==
  <<h, ToString(t[1]), " ", ToString(t[2]), " ", ToString(t[3])>>

(* "<H1><d1> <m1> <s1> <H2><d2> <m2> <s2>" *)
dmsText(h1, t1, h2, t2) == axisText(h1, t1) \o <<" ">> \o axisText(h2, t2)

WellFormedDms ==
  {dmsText(h1, t1, h2, t2) :
     h1 \in {"N", "S"}, t1 \in DmsTriples, h2 \in {"E", "W"}, t2 \in DmsTriples}

LatOnlyDms == axisText("N", <<10, 0, 0>>)
FourTokenDms == LatOnlyDms \o <<" ", "W", "20">>
FiveTokenDms == FourTokenDms \o <<" ", "30">>
NoHemisphereDms == <<"10", " ", "0", " ", "0", " ", "20", " ", "30", " ", "0">>

MalformedDms ==
  {<<>>, OneTokenDms, <<"N", "10", " ", "0">>, LatOnlyDms, FourTokenDms,
   FiveTokenDms, NoHemisphereDms, LatLongText}

DmsInit ==
  /\ initFor({"resumable"})
  /\ indexDom = <<>>
  /\ initStore.kind = "absent"

DmsCall ==
  /\ pc = "start"
  /\ \E text \in WellFormedDms \cup MalformedDms :
       siteData' = [NoSiteData EXCEPT !.coordsText = text]
  /\ pc' = "dms_call"
  /\ UNCHANGED <<siteVars, runVars, fileVars, gotoVars, scrapedLinks, siteLinks,
                 idx, latlong, summary, caught, captcha, apiCalls, data,
                 browserOpen, exitCode, stats, lastError, written>>

(* let [latitude, longitude] = dmsToDD(siteData.coordsText) *)
DmsApply ==
  /\ pc = "dms_call"
  /\ IF dmsThrows(siteData.coordsText)
     THEN /\ pc' = "dms_thrown"
          /\ UNCHANGED latlong
     ELSE /\ latlong' = coordinates(variant, siteData.coordsText)
          /\ pc' = "dms_returned"
  /\ UNCHANGED <<siteVars, runVars, fileVars, gotoVars, scrapedLinks, siteLinks,
                 idx, siteData, summary, caught, captcha, apiCalls, data,
                 browserOpen, exitCode, stats, lastError, written>>

DmsSettled ==
  /\ pc \in {"dms_returned", "dms_thrown"}
  /\ clearItem
  /\ pc' = "start"
  /\ UNCHANGED <<siteVars, runVars, fileVars, gotoVars, scrapedLinks, siteLinks,
                 idx, data, browserOpen, exitCode, stats, lastError, written>>

DmsNext == DmsCall \/ DmsApply \/ DmsSettled

SpecDms == DmsInit /\ [][DmsNext]_vars

---------------------------------------------------------------------------
(* The HTTP service: GET / -> scrapeSites -> scrapeAndSaveToCSV.  Every
   request runs its own call of the async function; the csvWriter is one
   object of the module scope, shared by all calls. *)

scriptVars == <<variant, indexDom, initStore, runVars, itemVars, gotoVars,
                scrapedLinks, siteLinks, idx, data, browserOpen, exitCode,
                stats, lastError, written, pc>>

(* .filter((href) => href.includes("/en/list")) *)
RECURSIVE filterListLinks(_)
filterListLinks(hrefs) ==
  IF hrefs = <<>> THEN <<>>
  ELSE (IF Head(hrefs) \in Addresses \/ Head(hrefs) = AnchorHref
        THEN <<Head(hrefs)>> ELSE <<>>)
       \o filterListLinks(Tail(hrefs))

(* [...new Set(siteLinks)]: first occurrences, in order *)
RECURSIVE uniqueLinks(_)
uniqueLinks(links) ==
  IF links = <<>> THEN <<>>
  ELSE LET front == uniqueLinks(SubSeq(links, 1, Len(links) - 1))
           last == links[Len(links)]
       IN IF \E i \in 1..Len(front) : front[i] = last THEN front
          ELSE Append(front, last)

(* description.split(". ") *)
RECURSIVE splitPeriodSpace(_)
splitPeriodSpace(t) ==
  IF \E i \in 1..(Len(t) - 1) : t[i] = "." /\ t[i + 1] = " "
  THEN LET i == CHOOSE i \in 1..(Len(t) - 1) :
                  /\ t[i] = "." /\ t[i + 1] = " "
                  /\ \A j \in 1..(i - 1) : ~(t[j] = "." /\ t[j + 1] = " ")
       IN <<SubSeq(t, 1, i - 1)>> \o splitPeriodSpace(SubSeq(t, i + 2, Len(t)))
  ELSE <<t>>

(* the page the service reads a site from *)
ServicePage == CHOOSE p \in Pages : p.title # <<>> /\ p.coords = ValidDms

(* the page.evaluate callback and scrapedData.push({...}) *)
serviceRecord(dom, pos) ==
  [title |-> IF dom.title # <<>> THEN dom.title ELSE <<" ">>,
   aura |-> <<ToString(AuraScore)>>,
   category |-> <<"historic">>,
   description |->
     join(slice(splitPeriodSpace(IF dom.desc # <<>> THEN dom.desc ELSE <<" ">>),
                0, 2), <<".", " ">>) \o <<".", " ">>,
   latitude |-> <<>>,
   longitude |-> <<>>,
   price |-> <<"NONE">>,
   images |-> dom.image,
   link |-> <<>>,
   pos |-> pos]

reject(r, error) ==
  /\ reqError' = [reqError EXCEPT ![r] = error]
  /\ reqPc' = [reqPc EXCEPT ![r] = "rejected"]

(* router.get("/", scrapeController.scrapeSites): a request arrives and the
   controller calls scrapeAndSaveToCSV *)
Request(r) ==
  /\ reqPc[r] = "idle"
  /\ reqPc' = [reqPc EXCEPT ![r] = "launch"]
  /\ UNCHANGED <<scriptVars, fileVars, reqBrowser, reqLinks, reqIdx, reqData,
                 reqAppend, reqError, response, writing>>

(* await puppeteer.launch(...); await browser.newPage() *)
Launch(r) ==
  /\ reqPc[r] = "launch"
  /\ \E ok \in BOOLEAN :
       IF ok
       THEN /\ reqBrowser' = [reqBrowser EXCEPT ![r] = TRUE]
            /\ reqPc' = [reqPc EXCEPT ![r] = "index"]
            /\ UNCHANGED reqError
       ELSE /\ reject(r, "launch")
            /\ UNCHANGED reqBrowser
  /\ UNCHANGED <<scriptVars, fileVars, reqLinks, reqIdx, reqData, reqAppend,
                 response, writing>>

(* await page.goto(baseUrl): no retry and no catch around it *)
ServiceIndex(r) ==
  /\ reqPc[r] = "index"
  /\ \E ok \in BOOLEAN :
       IF ok
       THEN /\ reqPc' = [reqPc EXCEPT ![r] = "collect"]
            /\ UNCHANGED reqError
       ELSE reject(r, "index")
  /\ UNCHANGED <<scriptVars, fileVars, reqBrowser, reqLinks, reqIdx, reqData,
                 reqAppend, response, writing>>

(* await page.evaluate(...) of the links, then uniqueLinks *)
Collect(r) ==
  /\ reqPc[r] = "collect"
  /\ \E ok \in BOOLEAN :
       IF ok
       THEN /\ reqLinks' = [reqLinks EXCEPT
                               ![r] = uniqueLinks(filterListLinks(indexDom))]
            /\ reqIdx' = [reqIdx EXCEPT ![r] = 1]
            /\ reqPc' = [reqPc EXCEPT ![r] = "loop"]
            /\ UNCHANGED reqError
       ELSE /\ reject(r, "collect")
            /\ UNCHANGED <<reqLinks, reqIdx>>
  /\ UNCHANGED <<scriptVars, fileVars, reqBrowser, reqData, reqAppend,
                 response, writing>>

(* await page.goto(link, ...); a rejection is caught, logged, and the loop
   goes on *)
LinkGoto(r) ==
  /\ reqPc[r] = "loop" /\ reqIdx[r] <= Len(reqLinks[r])
  /\ \E ok \in BOOLEAN :
       IF ok
       THEN /\ reqPc' = [reqPc EXCEPT ![r] = "extract"]
            /\ UNCHANGED reqIdx
       ELSE /\ reqIdx' = [reqIdx EXCEPT ![r] = @ + 1]
            /\ UNCHANGED reqPc
  /\ UNCHANGED <<scriptVars, fileVars, reqBrowser, reqLinks, reqData,
                 reqAppend, reqError, response, writing>>

(* await page.evaluate(...) of the site, scrapedData.push *)
LinkExtract(r) ==
  /\ reqPc[r] = "extract"
  /\ \E ok \in BOOLEAN :
       IF ok
       THEN reqData' = [reqData EXCEPT
                          ![r] = Append(@, serviceRecord(ServicePage, reqIdx[r]))]
       ELSE UNCHANGED reqData
  /\ reqIdx' = [reqIdx EXCEPT ![r] = @ + 1]
  /\ reqPc' = [reqPc EXCEPT ![r] = "loop"]
  /\ UNCHANGED <<scriptVars, fileVars, reqBrowser, reqLinks, reqAppend,
                 reqError, response, writing>>

(* await browser.close() after the loop *)
ServiceClose(r) ==
  /\ reqPc[r] = "loop" /\ reqIdx[r] > Len(reqLinks[r])
  /\ reqBrowser' = [reqBrowser EXCEPT ![r] = FALSE]
  /\ reqPc' = [reqPc EXCEPT ![r] = "write"]
  /\ UNCHANGED <<scriptVars, fileVars, reqLinks, reqIdx, reqData, reqAppend,
                 reqError, response, writing>>

(* csvWriter.writeRecords(scrapedData) is called: the header and the open
   flag follow the writer's append flag of this moment *)
WriteBegin(r) ==
  /\ reqPc[r] = "write"
  /\ reqAppend' = [reqAppend EXCEPT ![r] = writerAppend]
  /\ writing' = writing \cup {r}
  /\ reqPc' = [reqPc EXCEPT ![r] = "writing"]
  /\ UNCHANGED <<scriptVars, fileVars, reqBrowser, reqLinks, reqIdx, reqData,
                 reqError, response>>

(* the write settles; a fulfilled one sets the writer's append flag *)
WriteEnd(r) ==
  /\ reqPc[r] = "writing"
  /\ writing' = writing \ {r}
  /\ \E ok \in BOOLEAN :
       IF ok
       THEN /\ csvData' = writeRecords(variant, reqAppend[r], csvExists,
                                       csvData, reqData[r])
            /\ csvExists' = TRUE
            /\ writerAppend' = TRUE
            /\ reqPc' = [reqPc EXCEPT ![r] = "resolved"]
            /\ UNCHANGED reqError
       ELSE /\ reject(r, "write")
            /\ UNCHANGED fileVars
  /\ UNCHANGED <<scriptVars, reqBrowser, reqLinks, reqIdx, reqData, reqAppend,
                 response>>

RespondAlwaysOk(r) ==
  /\ reqPc[r] \in {"resolved", "rejected"}
  /\ response' = [response EXCEPT ![r] = Append(@, 200)]
  /\ reqPc' = [reqPc EXCEPT ![r] = "responded"]
  /\ UNCHANGED <<scriptVars, fileVars, reqBrowser, reqLinks, reqIdx, reqData,
                 reqAppend, reqError, writing>>

(* scrapeSites: res.status(200).send(...) after the await, or
   res.status(500).send(...) in the catch *)
Respond(r) ==
  /\ \/ /\ reqPc[r] = "resolved"
        /\ response' = [response EXCEPT ![r] = Append(@, 200)]
     \/ /\ reqPc[r] = "rejected"
        /\ response' = [response EXCEPT ![r] = Append(@, 500)]
  /\ reqPc' = [reqPc EXCEPT ![r] = "responded"]
  /\ UNCHANGED <<scriptVars, fileVars, reqBrowser, reqLinks, reqIdx, reqData,
                 reqAppend, reqError, writing>>

ServiceInit == initFor({"service"})

ServiceNext ==
  \E r \in Requests :
    \/ Request(r) \/ Launch(r) \/ ServiceIndex(r) \/ Collect(r)
    \/ LinkGoto(r) \/ LinkExtract(r) \/ ServiceClose(r)
    \/ WriteBegin(r) \/ WriteEnd(r) \/ Respond(r)

SpecService == ServiceInit /\ [][ServiceNext]_vars

---------------------------------------------------------------------------
(* Properties *)

A1 == <<"/en/list/1">>
A2 == <<"/en/list/2">>
A3 == <<"/en/list/3">>

(* the addresses whose rows the store held when this run started *)
storedLinks == initStore.links \cup prevLinks

(* positions this run persisted a record for *)
savedPositions == {i \in 1..Len(stats) : stats[i].write = 1}

headerLine == join(header("resumable"), <<",">>)

(* C1: with the store created by the first run's own writer and an unchanged
   index page, a later run neither navigates to nor writes an address an
   earlier run persisted, and writes nothing when every discovered address
   was persisted before. *)
ResumeAcrossRuns ==
  (initStore.kind = "absent" /\ run > 1) =>
    /\ \A i \in 1..Len(stats) :
         siteLinks[i] \in prevLinks => stats[i].nav = 0 /\ stats[i].write = 0
    /\ (\A i \in 1..Len(stats) : siteLinks[i] \in prevLinks) => written = <<>>

(* C2: with a prior store made of a header row and rows ending in addresses,
   the loop skips exactly the discovered addresses that end a row of the
   store and processes exactly the others. *)
ResumeFilterExact ==
  initStore.kind = "prior" =>
    \A i \in 1..Len(stats) :
      /\ stats[i].skip = 1 => siteLinks[i] \in storedLinks
      /\ stats[i].nav >= 1 => siteLinks[i] \notin storedLinks
      /\ i < idx => stats[i].skip + stats[i].nav = 1

ResumeFilterExactWitness ==
  /\ initStore.links = {A1, A2} /\ run = 1 /\ pc = "done"
  /\ {siteLinks[i] : i \in {j \in 1..Len(stats) : stats[j].skip = 1}} = {A2}
  /\ {siteLinks[i] : i \in {j \in 1..Len(stats) : stats[j].nav = 1}} = {A3}

(* C3: every position the loop has passed without skipping it has either
   exactly one persisted record and no warning, or exactly one warning and
   no record; the store gained exactly one row per persisted position; and a
   run that ends without a logged error has passed every position. *)
PerEntityIsolation ==
  /\ \A i \in 1..Len(stats) :
       (i < idx /\ stats[i].skip = 0) =>
         /\ stats[i].write + stats[i].warn = 1
         /\ stats[i].write =
              Cardinality({k \in 1..Len(written) : written[k].pos = i})
  /\ Len(split(csvData, "\n"))
       = Len(split(csvAtStart, "\n")) + Cardinality(savedPositions)
  /\ (pc = "done" /\ lastError = "none") => idx = Len(siteLinks) + 1

PerEntityIsolationWitness ==
  /\ pc = "done" /\ Len(stats) = 2
  /\ stats[1].warn = 1 /\ stats[1].write = 0
  /\ stats[2].write = 1 /\ Len(written) = 1

(* The same isolation in the batch scripts, which persist with one write
   at the end of the run: a run that ends without a logged error has
   passed every position, each with exactly one record or one warning. *)
BatchEntityIsolation ==
  (pc = "done" /\ lastError = "none" /\ siteLinks # <<>>) =>
    /\ idx = Len(siteLinks) + 1
    /\ \A i \in 1..Len(stats) : stats[i].write + stats[i].warn = 1
    /\ Len(written) = Cardinality(savedPositions)
    /\ written # <<>> =>
         csvData = stringifyRow(header(variant)) \o stringifyRecords(variant, written)

(* C4 as stated: once links were found, no failure while processing one
   address ends the process: the run is never in the exited state. *)
ItemFailureNeverAborts == siteLinks # <<>> => pc # "exited"

(* C4, amended: an error thrown inside the per-item try (navigation retries
   exhausted, rejected evaluation, coordinate parsing, rejected write) is
   caught while the process keeps running, and every position the loop has
   passed ended as skipped, persisted or logged as failed; the process exits
   in the middle of the loop only with status 1, the browser still open, at a
   position it has not passed, after logging a missing title or description
   or a failed summarization call; a run that ends without a logged error
   has passed every position. *)
ItemFailurePolicy ==
  /\ pc = "catch" =>
       /\ caught \in {"navigation", "evaluate", "coordinates", "write"}
       /\ exitCode = -1 /\ idx <= Len(siteLinks)
  /\ \A i \in 1..Len(stats) :
       i < idx => stats[i].skip + stats[i].write + stats[i].warn = 1
  /\ (pc = "exited" /\ siteLinks # <<>>) =>
       /\ lastError \in {"missing", "gemini"}
       /\ exitCode = 1 /\ browserOpen
       /\ idx <= Len(siteLinks) /\ stats[idx].nav = 1
       /\ stats[idx].write + stats[idx].warn = 0
  /\ (pc = "done" /\ lastError = "none") => idx = Len(siteLinks) + 1

ItemFailurePolicyWitness ==
  /\ pc = "exited" /\ lastError = "missing" /\ idx = 2
  /\ stats[1].warn = 1 /\ stats[1].nav = 1

(* the page.goto results and waits of a call that fails k times and then
   succeeds *)
succeedsAfter(k) ==
  [i \in 1..(2 * k + 1) |->
     IF i = 2 * k + 1 THEN "ok" ELSE IF i % 2 = 1 THEN "fail" ELSE "sleep"]

(* the page.goto results and waits of a call that fails n times *)
failsAll(n) ==
  [i \in 1..(2 * n - 1) |-> IF i % 2 = 1 THEN "fail" ELSE "sleep"]

(* C5: when gotoWithRetries returns, page.goto failed k < maxRetries times
   and then succeeded, the calls and waits were fail, sleep, ..., fail,
   sleep, ok (k + 1 calls, k waits, each between two calls), and nothing
   follows a success. *)
RetryEventualSuccess ==
  /\ pc = "goto_returned" =>
       /\ gotoWarns < maxRetries
       /\ navTrace = succeedsAfter(gotoWarns)
  /\ \A i \in 1..(Len(navTrace) - 1) : navTrace[i] # "ok"

RetryEventualSuccessWitness ==
  pc = "goto_returned" /\ maxRetries = 3 /\ Len(navTrace) = 5

(* C6: when gotoWithRetries throws, page.goto was called exactly maxRetries
   times and failed each time, one warning was logged per failure, the
   waits were the maxRetries - 1 between the calls, and no call is made
   beyond maxRetries in any state. *)
RetryExhaustion ==
  /\ pc = "goto_thrown" =>
       /\ gotoWarns = maxRetries
       /\ navTrace = failsAll(maxRetries)
  /\ pc = "goto_returned" => navTrace # <<>> /\ navTrace[Len(navTrace)] = "ok"
  /\ Cardinality({i \in 1..Len(navTrace) : navTrace[i] # "sleep"}) <= maxRetries
  /\ gotoWarns = Cardinality({i \in 1..Len(navTrace) : navTrace[i] = "fail"})

RetryExhaustionWitness ==
  pc = "goto_thrown" /\ maxRetries = 3 /\ Len(navTrace) = 5

(* C7 as stated: a record whose summarization completed is in flight (its
   write is pending) or in the store. *)
NoCompletedRecordOutsideStore ==
  (summary # <<>> /\ pc # "record") =>
    \E k \in 1..Len(written) : written[k].pos = idx

(* C7, amended: the store is what it was at the start of the run followed by
   the rows of every record written so far, nothing is buffered, a
   summarized record is in memory only while its write is pending or while
   its failed write is being logged, and every earlier position is settled:
   persisted or logged as failed. *)
IncrementalPersistence ==
  /\ csvData = csvAtStart \o stringifyRecords(variant, written)
  /\ data = <<>>
  /\ summary # <<>> => pc = "record" \/ (pc = "catch" /\ caught = "write")
  /\ \A i \in 1..Len(stats) :
       (i < idx /\ stats[i].skip = 0) => stats[i].write = 1 \/ stats[i].warn = 1
  /\ \A k \in 1..Len(written) :
       written[k].pos < idx /\ written[k].link = siteLinks[written[k].pos]

IncrementalPersistenceWitness ==
  /\ pc = "delay" /\ idx = 2 /\ stats[1].write = 1
  /\ csvData = csvAtStart \o stringifyRecords(variant, written)
  /\ Len(written) = 1

(* C8: a store that did not exist before the first run starts with the
   header row, and no later line is a header row. *)
HeaderOnceAndFirst ==
  (initStore.kind = "absent" /\ csvExists) =>
    LET lines == split(csvData, "\n")
    IN /\ lines[1] = headerLine
       /\ \A i \in 2..Len(lines) : lines[i] # headerLine

(* C9: the discovered list holds no address twice, no address is navigated
   to at two positions of one run, and no two records written by a run
   share a link. *)
UniqueLinksPerRun ==
  /\ \A i, j \in 1..Len(siteLinks) : i # j => siteLinks[i] # siteLinks[j]
  /\ \A i, j \in 1..Len(stats) :
       (i # j /\ siteLinks[i] = siteLinks[j]) =>
         ~(stats[i].nav > 0 /\ stats[j].nav > 0)
  /\ \A k, l \in 1..Len(written) :
       k # l => written[k].link # written[l].link

(* C10: every persisted record has a title and a description that are not
   blank, so no row comes from an entity whose title or description was
   missing. *)
RecordsComplete ==
  \A k \in 1..Len(written) :
    trim(written[k].title) # <<>> /\ trim(written[k].description) # <<>>

(* C11: a run whose link discovery yields no address navigates to no detail
   page, writes nothing, and ends with a non-zero exit status. *)
ZeroLinksFatal ==
  (filterLinks(indexDom) = <<>> /\ pc \in {"done", "exited"}
     /\ lastError # "index") =>
    /\ stats = <<>> /\ written = <<>> /\ csvData = csvAtStart
    /\ exitCode > 0

(* C12: after the list-page navigation failed on all its attempts the
   browser is closed, the process has exited with status 1, no link was
   extracted, no detail page visited, nothing summarized or written, and the
   store is what it was when the run started; the list-page catch is entered
   only after DefaultMaxRetries failed attempts. *)
IndexFailureFatal ==
  /\ lastError = "index" =>
       /\ pc = "exited" /\ exitCode = 1 /\ ~browserOpen
       /\ siteLinks = <<>> /\ stats = <<>> /\ idx = 0
       /\ summary = <<>> /\ written = <<>> /\ data = <<>>
       /\ csvData = csvAtStart
       /\ csvExists = (initStore.kind # "absent" \/ prevLinks # {})
  /\ (pc = "goto_thrown" /\ gotoCaller = "index") =>
       gotoWarns = DefaultMaxRetries /\ navTrace = failsAll(DefaultMaxRetries)

IndexFailureFatalWitness ==
  /\ lastError = "index" /\ pc = "exited" /\ run = 2
  /\ prevLinks # {} /\ csvData = csvAtStart

(* C13: a detected CAPTCHA raises the alert and suspends the item; while the
   item is suspended no field is extracted, nothing is summarized or written
   and no navigation is in progress; the only way out of the wait is the
   operator's signal followed by the settle delay, after which the same
   position is extracted; without a detection the item is never suspended;
   outside the processing of an item nothing of this is pending. *)
CaptchaGate ==
  /\ pc = "captcha_wait" => captcha = <<"alert">>
  /\ pc = "captcha_settle" => captcha = <<"alert", "signal">>
  /\ pc \in {"evaluate", "summarize", "record"} =>
       captcha \in {<<>>, <<"alert", "signal", "settle">>}
  /\ captcha \in {<<"alert">>, <<"alert", "signal">>} =>
       /\ pc \in {"captcha_wait", "captcha_settle"}
       /\ siteData = NoSiteData /\ summary = <<>> /\ caught = "none"
       /\ gotoCaller = "none" /\ exitCode = -1
       /\ idx \in 1..Len(siteLinks) /\ stats[idx].nav = 1
       /\ stats[idx].write = 0 /\ stats[idx].warn = 0
       /\ \A k \in 1..Len(written) : written[k].pos < idx
  /\ pc \in {"start", "discover", "loop", "delay", "content", "finally",
              "done", "goto_try", "goto_sleep", "goto_returned",
              "goto_thrown"} => captcha = <<>>

CaptchaGateWitness ==
  /\ pc = "record" /\ captcha = <<"alert", "signal", "settle">>
  /\ idx = 2 /\ stats[1].write = 1 /\ siteData.title # <<>>

(* C14 as stated: summarizeText never terminates the process and always
   returns a string to its caller. *)
SummarizerTotal ==
  /\ exitCode = -1
  /\ pc # "exited"

(* C14, amended: summarizeText returns a string for every input and every
   outcome of the call, and the string is not empty (except "" in the second
   script of script.js for an output of white space only); the one exception
   is the resumable script, where a rejected call, and only that, ends the
   process with status 1 and nothing is returned. *)
SummarizerTotalOrExit ==
  /\ pc = "record" =>
       /\ exitCode = -1
       /\ summary # <<>> \/ (variant = "legacy" /\ apiCalls = <<"blank">>)
       /\ ~(variant = "resumable" /\ apiCalls = <<"error">>)
  /\ pc = "exited" =>
       /\ variant = "resumable" /\ apiCalls = <<"error">>
       /\ exitCode = 1 /\ lastError = "gemini" /\ summary = <<>>

SummarizerTotalOrExitWitness ==
  /\ pc = "record" /\ variant = "batch" /\ apiCalls = <<"error">>
  /\ siteData.descriptionFull = QuotedText /\ summary # <<>>

(* the first two sentences of a text, joined by one period and one space and
   ended by one period *)
firstTwoSentences(text) ==
  LET parts == slice(split(text, "."), 0, 2)
  IN join([i \in 1..Len(parts) |-> trim(parts[i])], <<".", " ">>) \o <<".">>

(* C15: when the call failed or gave no output text, the returned summary is
   the first two sentences of the source text joined by a single period and
   space and ended by one period. *)
SummarizerFallbackValue ==
  (pc = "record" /\ apiCalls # <<>> /\ apiCalls[1] \in {"error", "empty"}) =>
    summary = firstTwoSentences(siteData.descriptionFull)

(* C16: a text whose trimmed length is below 20 is returned unchanged without
   a call (the placeholder when it is empty); for any other text exactly one
   call was made when summarizeText is over, and none before it ran. *)
SummarizerSkip ==
  /\ (pc = "record" /\ length(trim(siteData.descriptionFull)) < 20) =>
       /\ apiCalls = <<>>
       /\ summary = IF siteData.descriptionFull = <<>> THEN Placeholder
                     ELSE siteData.descriptionFull
  /\ (pc \in {"record", "exited"}
        /\ length(trim(siteData.descriptionFull)) >= 20) => Len(apiCalls) = 1
  /\ pc = "summarize" => apiCalls = <<>>

SummarizerSkipWitness ==
  /\ pc = "record" /\ siteData.descriptionFull = PaddedText
  /\ summary = PaddedText /\ apiCalls = <<>>

(* degree + minute / 60 + second / 3600 in units of 1/3600 degree, negative
   for the hemispheres S and W *)
expectedDD(h, t) ==
  LET v == t[1] * 3600 + t[2] * 60 + t[3]
  IN <<ToString(IF h \in {"S", "W"} THEN 0 - v ELSE v)>>

(* C17: for a well-formed six-token text dmsToDD returns, without throwing,
   d + m/60 + s/3600 for each axis, negated exactly for S and for W. *)
DmsConversion ==
  \A h1 \in {"N", "S"}, h2 \in {"E", "W"}, t1 \in DmsTriples, t2 \in DmsTriples :
    siteData.coordsText = dmsText(h1, t1, h2, t2) =>
      /\ pc # "dms_thrown"
      /\ pc = "dms_returned" =>
           latlong = <<expectedDD(h1, t1), expectedDD(h2, t2)>>

DmsConversionWitness ==
  /\ pc = "dms_returned"
  /\ siteData.coordsText = dmsText("S", <<10, 0, 0>>, "W", <<20, 0, 0>>)
  /\ latlong = << <<"-36000">>, <<"-72000">> >>

(* C18: for an empty or malformed text dmsToDD does not throw and returns
   NaN for both axes. *)
DmsNeverThrows ==
  siteData.coordsText \in MalformedDms =>
    /\ pc # "dms_thrown"
    /\ pc = "dms_returned" => latlong = << <<"NaN">>, <<"NaN">> >>

(* a request whose call is navigating to or extracting a site *)
processing(r) ==
  \/ reqPc[r] = "extract"
  \/ reqPc[r] = "loop" /\ reqIdx[r] <= Len(reqLinks[r])

(* C19: at no time are two sites being processed at once, and at no time are
   two writes to the output file in progress. *)
NoConcurrentWork ==
  /\ Cardinality({r \in Requests : processing(r)}) <= 1
  /\ Cardinality(writing) <= 1

(* C20: a request gets no response while its call is pending and exactly one
   afterwards: 200 exactly when scrapeAndSaveToCSV resolved, which is after
   its browser was closed and its CSV write completed, and 500 exactly when
   an await outside the per-link try rejected; links that failed inside the
   loop do not change the status. *)
ResponseRelaysOutcome ==
  \A r \in Requests :
    /\ reqPc[r] # "responded" => response[r] = <<>>
    /\ reqPc[r] = "responded" =>
         /\ response[r] \in {<<200>>, <<500>>}
         /\ response[r] = <<200>> <=> reqError[r] = "none"
    /\ response[r] = <<200>> =>
         /\ reqIdx[r] = Len(reqLinks[r]) + 1
         /\ ~reqBrowser[r] /\ r \notin writing /\ csvExists /\ writerAppend
    /\ response[r] = <<500>> =>
         reqError[r] \in {"launch", "index", "collect", "write"}
    /\ reqError[r] = "none" <=> reqPc[r] # "rejected" /\ response[r] # <<500>>

ResponseRelaysOutcomeWitness ==
  \E r \in Requests :
    /\ response[r] = <<200>>
    /\ Len(reqLinks[r]) = 2 /\ Len(reqData[r]) = 1

(* C21: a run whose loop has gone through every discovered address and that
   ended without a logged error has closed the second tab and the browser
   and has logged one count of records collected, which is the number of
   records the run persisted. *)
NormalCompletionReportsCount ==
  (pc = "done" /\ lastError = "none" /\ siteLinks # <<>>
     /\ idx = Len(siteLinks) + 1) =>
    /\ ~sitePageOpen /\ ~browserOpen
    /\ reported = <<Len(written)>>

(* the part of C21 about the tab and the browser, and where a count is
   logged at all: only by the batch scripts, once, after the loop *)
NormalCompletionCloses ==
  /\ (pc = "done" /\ lastError = "none") => ~sitePageOpen /\ ~browserOpen
  /\ reported # <<>> =>
       /\ variant # "resumable" /\ reported = <<Len(data)>>
       /\ pc \in {"finally", "done"} /\ idx = Len(siteLinks) + 1
  /\ variant = "resumable" => reported = <<>>

(* a is the beginning of b *)
isPrefix(a, b) == Len(a) <= Len(b) /\ SubSeq(b, 1, Len(a)) = a

(* C22: every step leaves the rows of the output file in place: the file
   after the step is the file before it followed by nothing or by complete
   rows, and a file that exists keeps existing; this includes the start of a
   later run. *)
AppendOnlyStore ==
  [][/\ isPrefix(csvData, csvData')
     /\ (Len(csvData') > Len(csvData) => csvData'[Len(csvData')] = "\n")
     /\ (csvExists => csvExists')]_vars

(* C23: a rejected write of one record is caught by the per-item catch while
   the process keeps running; neither the rejection nor its handling changes
   the file, which still holds the rows written before; the failing address
   gets a warning and no persisted record; and the loop goes on with the
   next position. *)
PersistenceFailureLocal ==
  [][/\ (pc = "record" /\ pc' = "catch") =>
          /\ caught' = "write" /\ exitCode' = -1 /\ idx' = idx
          /\ csvData' = csvData /\ csvExists' = csvExists
          /\ written' = written /\ stats' = stats
     /\ (pc = "catch" /\ caught = "write") =>
          /\ pc' = "loop" /\ idx' = idx + 1 /\ exitCode' = -1
          /\ stats'[idx].warn = 1 /\ stats'[idx].write = 0
          /\ csvData' = csvData /\ csvExists' = csvExists
          /\ csvData' = csvAtStart \o stringifyRecords(variant, written')
          /\ written' = written
          /\ \A k \in 1..Len(written') : written'[k].pos < idx]_vars

PersistenceFailureLocalWitness ==
  /\ pc = "catch" /\ caught = "write" /\ idx = 2
  /\ stats[1].write = 1 /\ Len(written) = 1
  /\ csvData = csvAtStart \o stringifyRecords(variant, written)

(* C24: when the output file is absent, empty or holds only the header row
   (with or without a line end), the set of resume keys is empty, no
   position is skipped, and every position the loop has passed was
   navigated to. *)
ResumeToleratesAbsence ==
  /\ loadScrapedLinks(FALSE, <<>>) = {}
  /\ loadScrapedLinks(TRUE, <<>>) = {}
  /\ loadScrapedLinks(TRUE, headerLine) = {}
  /\ loadScrapedLinks(TRUE, headerLine \o <<"\n">>) = {}
  /\ (csvAtStart \in {<<>>, headerLine \o <<"\n">>}) =>
       /\ scrapedLinks = {}
       /\ \A i \in 1..Len(stats) :
            stats[i].skip = 0 /\ (i < idx => stats[i].nav = 1)

ResumeToleratesAbsenceWitness ==
  /\ initStore.kind = "prior" /\ csvAtStart = headerLine \o <<"\n">>
  /\ run = 1 /\ pc = "done" /\ Len(stats) = 2
  /\ stats[1].nav = 1 /\ stats[2].nav = 1 /\ Len(written) = 2

(* the same for a file that exists and is empty *)
ResumeEmptyFileWitness ==
  /\ initStore.kind = "empty" /\ csvAtStart = <<>> /\ csvExists
  /\ run = 1 /\ pc = "done" /\ Len(stats) = 2 /\ Len(written) = 2

(* the header line of a script's file, without its line end *)
headerLineOf(v) == join(header(v), <<",">>)

(* the rows of a file: its lines other than the header line and the empty
   end *)
storeRows(v, file) ==
  LET lines == split(file, "\n")
  IN {lines[i] : i \in 1..Len(lines)} \ {<<>>, headerLineOf(v)}

(* C25: every row of the output file has 400 in the Aura column, historic in
   the Category column and N/A in the Price column, whatever the page held;
   every record a run persisted has these values, and where the file has a
   Link column the record's link, which ends its row, is the address the run
   navigated to at the record's position. *)
FixedFields ==
  /\ \A line \in storeRows(variant, csvData) :
       LET cols == split(line, ",")
       IN /\ cols[2] = <<ToString(AuraScore)>>
          /\ cols[3] = <<"historic">>
          /\ cols[Len(cols) - (Len(header(variant)) - 7)] = <<"N/A">>
  /\ \A k \in 1..Len(written) :
       /\ written[k].aura = <<ToString(AuraScore)>>
       /\ written[k].category = <<"historic">>
       /\ written[k].price = <<"N/A">>
       /\ stats[written[k].pos].nav = 1
       /\ Len(header(variant)) = 9 =>
            /\ written[k].link = siteLinks[written[k].pos]
            /\ lastColumn(stringifyRow(recordFields(variant, written[k])))
                 = siteLinks[written[k].pos]

(* a run of the resumable script that persisted two records taken from
   different addresses *)
FixedFieldsWitness ==
  /\ variant = "resumable" /\ pc = "done" /\ Len(written) = 2
  /\ written[1].link # written[2].link
  /\ Cardinality(storeRows(variant, csvData)) >= 2

(* C26: when a run has ended, by the end of the main function or by
   process.exit, its browser has been closed; and when a call of
   scrapeAndSaveToCSV has resolved or rejected, the browser it launched has
   been closed. *)
BrowserReleased ==
  /\ pc \in {"done", "exited"} => ~browserOpen
  /\ \A r \in Requests :
       reqPc[r] \in {"resolved", "rejected", "responded"} => ~reqBrowser[r]

(* the paths on which the browser is closed: the end of the main function,
   which every run without process.exit reaches through the finally block,
   and the exit after the list page failed to load; a call of
   scrapeAndSaveToCSV that resolved *)
BrowserReleasedOnFinally ==
  /\ pc = "done" => ~browserOpen /\ ~sitePageOpen /\ exitCode = 0
  /\ (pc = "exited" /\ lastError = "index") => ~browserOpen
  /\ (pc = "exited" /\ lastError # "index") =>
       browserOpen /\ lastError \in {"missing", "gemini"}
  /\ \A r \in Requests :
       /\ reqPc[r] = "resolved" => ~reqBrowser[r]
       /\ (reqPc[r] = "rejected" /\ reqError[r] \in {"index", "collect"}) =>
            reqBrowser[r]
       /\ (reqPc[r] = "rejected" /\ reqError[r] \in {"launch", "write"}) =>
            ~reqBrowser[r]

(* positions of the main function at which an item is being processed *)
ItemSteps ==
  {"delay", "goto_try", "goto_sleep", "goto_returned", "goto_thrown",
   "content", "captcha_wait", "captcha_settle", "evaluate", "summarize",
   "record", "catch"}

(* C27: an address of the resume set gets no delay, navigation, extraction,
   summarization call or write; no summarization call is made for a page
   whose title or description is empty; and for any address at most one
   call is made, after the required-field check passed and before the
   write. *)
NoWorkForUnpersisted ==
  /\ \A i \in 1..Len(stats) :
       siteLinks[i] \in scrapedLinks =>
         stats[i].nav = 0 /\ stats[i].write = 0 /\ stats[i].warn = 0
  /\ (pc \in ItemSteps /\ gotoCaller # "index") =>
       idx \in 1..Len(siteLinks) /\ siteLinks[idx] \notin scrapedLinks
  /\ \A k \in 1..Len(written) : siteLinks[written[k].pos] \notin scrapedLinks
  /\ (pc = "exited" /\ lastError = "missing") =>
       /\ siteData.title = <<>> \/ siteData.descriptionFull = <<>>
       /\ apiCalls = <<>> /\ summary = <<>>
  /\ Len(apiCalls) <= 1
  /\ apiCalls # <<>> =>
       /\ siteData.title # <<>> /\ siteData.descriptionFull # <<>>
       /\ ~tooShort(siteData.descriptionFull)
       /\ pc \in {"record", "exited", "catch"}
       /\ stats[idx].nav = 1 /\ stats[idx].write = 0
       /\ \A k \in 1..Len(written) : written[k].pos < idx
  /\ pc \in {"start", "discover", "loop", "delay", "content", "evaluate",
              "summarize", "finally", "done"} => apiCalls = <<>>

NoWorkForUnpersistedWitness ==
  /\ pc = "record" /\ Len(apiCalls) = 1 /\ idx = 2
  /\ stats[1].skip = 1 /\ stats[1].nav = 0
  /\ stats[2].nav = 1 /\ siteLinks[1] \in scrapedLinks

=============================================================================
